---- MODULE Spec2Model ----
(***************************************************************************)
(* Model of src/App.js: the cart and order routes of the grocery backend   *)
(* (GET/POST /api/cart, POST /api/order, POST /api/products) over the      *)
(* Product, Cart and Order collections.                                    *)
(*                                                                         *)
(* Every await on a database call is a suspension point of the handler;    *)
(* one action of the model is one database call together with the          *)
(* synchronous code that runs up to the next await.  `reqs` holds, per     *)
(* connection, the handler that runs on it with its local variables, or    *)
(* the response it sent last.                                              *)
(*                                                                         *)
(* Cart documents are saved through Mongoose: a new document is inserted,  *)
(* a loaded one is updated by the delta of its modified paths, guarded by  *)
(* the document's version key (__v) as Mongoose does for arrays:           *)
(*   items.<i>.quantity = n   $set,  where __v = loaded version            *)
(*   items.push(x)            $push, $inc __v                              *)
(*   items = []               $set,  where __v = loaded version, $inc __v  *)
(* An update whose version filter matches no document rejects save() with  *)
(* a VersionError, which the handler's catch turns into a 500.             *)
(*                                                                         *)
(* Left out: /signup and /login, the token check of authMiddleware (a      *)
(* request enters its handler with req.user.id set), GET /api/products,    *)
(* and the product fields other than _id and price.  A response is kept as *)
(* its status, the created Order's place in the collection (orderId) and,  *)
(* for GET /api/cart, the lines returned (body; the empty answer is the    *)
(* same for a missing cart and for a cart without lines).                  *)
(*                                                                         *)
(* The Product collection also changes outside the handlers (SetPrice,     *)
(* RemoveProduct): src has no route for it, the data model names it.       *)
(* `added` and `total` are history variables; no action reads them.        *)
(***************************************************************************)
EXTENDS Integers, Sequences, FiniteSets, TLC

\* ---- bounds of the model ----
MaxReq == 2          \* requests per behaviour of Spec
MaxRaceReq == 3      \* requests per behaviour of SpecRace
MaxSeqReq == 3       \* requests per behaviour of SpecSeq

Users == {"u1", "u2"}
ProductIds == {"p1", "p2"}
Prices == {2, 5}
Quantities == {-1, 1, 3}
Positive == {q \in Quantities : q > 0}
Conns == {1, 2}        \* connections: at most two requests are handled at a time
Addresses == {"addr"}
PaymentMethods == {"cod"}

\* ---- HTTP status codes used by the handlers ----
OK == 200
Created == 201
InvalidState == 400
NotFound == 404
Internal == 500

VARIABLES
  catalog,   \* Product collection: product id -> price, for the products that exist
  carts,     \* Cart collection in insertion order: [userId, items, v]
  orders,    \* Order collection in insertion order
  reqs,      \* connection -> the handler running on it, with its local variables
  nReq,      \* number of requests received so far
  added,     \* history: user -> (product -> quantity added by successful addItem
             \*          calls since a checkout last cleared the user's cart)
  total      \* history: user -> product -> quantity added by all successful addItem calls

vars == <<catalog, carts, orders, reqs, nReq, added, total>>

\* ---- helpers ----

\* Cart.findOne({ userId }): the first matching document, 0 for null
FindOne(u) ==
  IF \E i \in 1..Len(carts) : carts[i].userId = u
  THEN CHOOSE i \in 1..Len(carts) :
         carts[i].userId = u /\ \A j \in 1..(i-1) : carts[j].userId # u
  ELSE 0

\* cart.items.find(item => item.productId.toString() === productId): index, 0 for undefined
FindItem(items, p) ==
  IF \E i \in 1..Len(items) : items[i].productId = p
  THEN CHOOSE i \in 1..Len(items) :
         items[i].productId = p /\ \A j \in 1..(i-1) : items[j].productId # p
  ELSE 0

\* a merge that never looks for the existing line
MergeItem_AlwaysPush(items, p, q) ==
  Append(items, [productId |-> p, quantity |-> q])

\* lines 164-166: increment the existing line or push a new one
MergeItem(items, p, q) ==
  LET i == FindItem(items, p) IN
  IF i > 0 THEN [items EXCEPT ![i].quantity = @ + q]
  ELSE Append(items, [productId |-> p, quantity |-> q])

\* .populate("items.productId"): each line's product resolved against the
\* catalog; a reference to a missing product is populated with null
Populate(items) ==
  [i \in 1..Len(items) |->
     IF items[i].productId \in DOMAIN catalog
     THEN [found |-> TRUE, price |-> catalog[items[i].productId]]
     ELSE [found |-> FALSE, price |-> 0]]

AnyMissing(populated) == \E i \in 1..Len(populated) : ~populated[i].found

\* a total that leaves the quantity out
RECURSIVE TotalPrice_NoQuantity(_, _)
TotalPrice_NoQuantity(items, populated) ==
  IF items = <<>> THEN 0
  ELSE LET n == Len(items) IN
       TotalPrice_NoQuantity(SubSeq(items, 1, n-1), SubSeq(populated, 1, n-1))
         + populated[n].price

\* line 182: cart.items.reduce((total, item) => total + price * quantity, 0)
RECURSIVE TotalPrice(_, _)
TotalPrice(items, populated) ==
  IF items = <<>> THEN 0
  ELSE LET n == Len(items) IN
       TotalPrice(SubSeq(items, 1, n-1), SubSeq(populated, 1, n-1))
         + populated[n].price * items[n].quantity

\* lines 143-149: the cart view
CartView(items, populated) ==
  [i \in 1..Len(items) |->
     [id |-> items[i].productId, price |-> populated[i].price,
      quantity |-> items[i].quantity]]

EmptyFn == [x \in {} |-> 0]

NoDoc == [id |-> 0, items |-> <<>>, v |-> 0]
NoDelta == [op |-> "none", idx |-> 0]

\* a connection with no request on it yet
Free ==
  [kind |-> "none", userId |-> "", productId |-> "", quantity |-> 0,
   address |-> "", paymentMethod |-> "",
   pc |-> "free", cart |-> NoDoc, delta |-> NoDelta, populated |-> <<>>,
   totalPrice |-> 0, orderId |-> 0, status |-> 0, body |-> <<>>]

\* a handler that has just been entered with req.user.id = u
NewReq(kind, u) == [Free EXCEPT !.kind = kind, !.userId = u, !.pc = "start"]

\* res.status(status).json(...): the handler returns and its locals are gone
Respond(r, status) ==
  [r EXCEPT !.pc = "done", !.status = status, !.cart = NoDoc, !.delta = NoDelta,
            !.populated = <<>>, !.totalPrice = 0]

Running(k) == reqs[k].pc \notin {"free", "done"}
Idle == \A k \in Conns : ~Running(k)
\* the connection the next request arrives on
NextSlot == CHOOSE k \in Conns : ~Running(k) /\ \A j \in 1..(k-1) : Running(j)

\* history: quantity q of product p added to what the function f records
Record(f, p, q) ==
  [x \in DOMAIN f \cup {p} |->
     IF x = p THEN (IF p \in DOMAIN f THEN f[p] + q ELSE q) ELSE f[x]]

Init ==
  /\ catalog = EmptyFn
  /\ carts = <<>>
  /\ orders = <<>>
  /\ reqs = [k \in Conns |-> Free]
  /\ nReq = 0
  /\ added = [u \in Users |-> EmptyFn]
  /\ total = [u \in Users |-> [p \in ProductIds |-> 0]]

\* ---- POST /api/products (lines 127-135) ----
CreateProduct(p, price) ==
  /\ p \notin DOMAIN catalog
  /\ catalog' = [x \in DOMAIN catalog \cup {p} |-> IF x = p THEN price ELSE catalog[x]]
  /\ UNCHANGED <<carts, orders, reqs, nReq, added, total>>

\* ---- the Product collection changed outside the handlers ----
SetPrice(p, price) ==
  /\ p \in DOMAIN catalog
  /\ catalog[p] # price
  /\ catalog' = [catalog EXCEPT ![p] = price]
  /\ UNCHANGED <<carts, orders, reqs, nReq, added, total>>

RemoveProduct(p) ==
  /\ p \in DOMAIN catalog
  /\ catalog' = [x \in DOMAIN catalog \ {p} |-> catalog[x]]
  /\ UNCHANGED <<carts, orders, reqs, nReq, added, total>>

\* ---- POST /api/cart (lines 155-173) ----
\* lines 157-159
AddItemFindProduct(u, p, q) ==
  /\ \E k \in Conns : ~Running(k)
  /\ LET r == [NewReq("addItem", u) EXCEPT !.productId = p, !.quantity = q] IN
     reqs' = [reqs EXCEPT ![NextSlot] =
                IF p \in DOMAIN catalog THEN [r EXCEPT !.pc = "findCart"]
                ELSE Respond(r, NotFound)]
  /\ nReq' = nReq + 1
  /\ UNCHANGED <<catalog, carts, orders, added, total>>

\* lines 161-166
AddItemFindCart(k) ==
  /\ reqs[k].kind = "addItem" /\ reqs[k].pc = "findCart"
  /\ LET r == reqs[k]
         id == FindOne(r.userId)
         doc == IF id = 0 THEN NoDoc
                ELSE [id |-> id, items |-> carts[id].items, v |-> carts[id].v]
         i == FindItem(doc.items, r.productId)
     IN reqs' = [reqs EXCEPT
          ![k].cart = [doc EXCEPT !.items = MergeItem(doc.items, r.productId, r.quantity)],
          ![k].delta = IF id = 0 THEN [op |-> "insert", idx |-> 0]
                       ELSE IF i > 0 THEN [op |-> "set", idx |-> i]
                       ELSE [op |-> "push", idx |-> 0],
          ![k].pc = "save"]
  /\ UNCHANGED <<catalog, carts, orders, nReq, added, total>>

\* cart.save() of lines 168 and 187: the write Mongoose sends for the
\* document's modified paths; the collection is unchanged when the version
\* filter matches no document (save() then rejects with a VersionError)
SaveCart(u, doc, delta) ==
  CASE delta.op = "insert" ->
         Append(carts, [userId |-> u, items |-> doc.items, v |-> 0])
    [] delta.op = "set" ->
         IF carts[doc.id].v = doc.v
         THEN [carts EXCEPT ![doc.id].items[delta.idx].quantity =
                              doc.items[delta.idx].quantity]
         ELSE carts
    [] delta.op = "push" ->
         [carts EXCEPT ![doc.id].items = Append(@, doc.items[Len(doc.items)]),
                       ![doc.id].v = @ + 1]
    [] delta.op = "clear" ->
         IF carts[doc.id].v = doc.v
         THEN [carts EXCEPT ![doc.id].items = <<>>, ![doc.id].v = @ + 1]
         ELSE carts

\* whether that save() resolves
SaveOk(doc, delta) ==
  delta.op \in {"set", "clear"} => carts[doc.id].v = doc.v

\* lines 168-169
AddItemSave(k) ==
  /\ reqs[k].kind = "addItem" /\ reqs[k].pc = "save"
  /\ LET r == reqs[k]
         ok == SaveOk(r.cart, r.delta)
     IN /\ carts' = SaveCart(r.userId, r.cart, r.delta)
        /\ reqs' = [reqs EXCEPT ![k] = Respond(r, IF ok THEN OK ELSE Internal)]
        /\ added' = IF ok THEN [added EXCEPT ![r.userId] = Record(@, r.productId, r.quantity)]
                    ELSE added
        /\ total' = IF ok THEN [total EXCEPT ![r.userId][r.productId] = @ + r.quantity]
                    ELSE total
  /\ UNCHANGED <<catalog, orders, nReq>>

\* ---- GET /api/cart (lines 138-153) ----
\* lines 140-141, the findOne
GetCartFindCart(u) ==
  /\ \E k \in Conns : ~Running(k)
  /\ LET id == FindOne(u)
         r == NewReq("getCart", u)
     IN reqs' = [reqs EXCEPT ![NextSlot] =
          IF id = 0 THEN Respond(r, OK)
          ELSE [r EXCEPT !.pc = "populate",
                  !.cart = [id |-> id, items |-> carts[id].items, v |-> carts[id].v]]]
  /\ nReq' = nReq + 1
  /\ UNCHANGED <<catalog, carts, orders, added, total>>

\* lines 140-149, the populate and the response
GetCartPopulate(k) ==
  /\ reqs[k].kind = "getCart" /\ reqs[k].pc = "populate"
  /\ LET r == reqs[k]
         pop == Populate(r.cart.items)
     IN reqs' = [reqs EXCEPT ![k] =
          IF AnyMissing(pop) THEN Respond(r, Internal)
          ELSE Respond([r EXCEPT !.body = CartView(r.cart.items, pop)], OK)]
  /\ UNCHANGED <<catalog, carts, orders, nReq, added, total>>

\* ---- POST /api/order (lines 176-193) ----
\* a checkout that rejects a missing cart only
PlaceOrderFindCart_NoEmptyCheck(u, a, m) ==
  /\ \E k \in Conns : ~Running(k)
  /\ LET id == FindOne(u)
         r == [NewReq("placeOrder", u) EXCEPT !.address = a, !.paymentMethod = m]
     IN reqs' = [reqs EXCEPT ![NextSlot] =
          IF id = 0 THEN Respond(r, InvalidState)
          ELSE [r EXCEPT !.pc = "populate",
                  !.cart = [id |-> id, items |-> carts[id].items, v |-> carts[id].v]]]
  /\ nReq' = nReq + 1
  /\ UNCHANGED <<catalog, carts, orders, added, total>>

\* lines 178-180, the findOne
PlaceOrderFindCart(u, a, m) ==
  /\ \E k \in Conns : ~Running(k)
  /\ LET id == FindOne(u)
         r == [NewReq("placeOrder", u) EXCEPT !.address = a, !.paymentMethod = m]
     IN reqs' = [reqs EXCEPT ![NextSlot] =
          IF id = 0 \/ carts[id].items = <<>> THEN Respond(r, InvalidState)
          ELSE [r EXCEPT !.pc = "populate",
                  !.cart = [id |-> id, items |-> carts[id].items, v |-> carts[id].v]]]
  /\ nReq' = nReq + 1
  /\ UNCHANGED <<catalog, carts, orders, added, total>>

\* lines 179-183, the populate, the total and the new Order
PlaceOrderPopulate(k) ==
  /\ reqs[k].kind = "placeOrder" /\ reqs[k].pc = "populate"
  /\ LET r == reqs[k]
         pop == Populate(r.cart.items)
     IN reqs' = [reqs EXCEPT ![k] =
          IF AnyMissing(pop) THEN Respond(r, Internal)
          ELSE [r EXCEPT !.populated = pop, !.pc = "saveOrder",
                         !.totalPrice = TotalPrice(r.cart.items, pop)]]
  /\ UNCHANGED <<catalog, carts, orders, nReq, added, total>>

\* a checkout that clears the cart first and creates the Order afterwards
PlaceOrderSaveOrder_ClearFirst(k) ==
  /\ reqs[k].kind = "placeOrder" /\ reqs[k].pc = "saveOrder"
  /\ LET r == reqs[k]
         doc == [r.cart EXCEPT !.items = <<>>]
         delta == [op |-> "clear", idx |-> 0]
     IN /\ carts' = SaveCart(r.userId, doc, delta)
        /\ reqs' = [reqs EXCEPT ![k].pc = "saveCart", ![k].cart = doc, ![k].delta = delta]
        /\ added' = IF SaveOk(doc, delta) THEN [added EXCEPT ![r.userId] = EmptyFn]
                    ELSE added
  /\ UNCHANGED <<catalog, orders, nReq, total>>

\* lines 184-186
PlaceOrderSaveOrder(k) ==
  /\ reqs[k].kind = "placeOrder" /\ reqs[k].pc = "saveOrder"
  /\ LET r == reqs[k] IN
     /\ orders' = Append(orders,
          [userId |-> r.userId, items |-> r.cart.items, totalPrice |-> r.totalPrice,
           address |-> r.address, paymentMethod |-> r.paymentMethod,
           status |-> "Pending"])
     /\ reqs' = [reqs EXCEPT ![k].pc = "saveCart", ![k].orderId = Len(orders) + 1,
                             ![k].cart.items = <<>>,
                             ![k].delta = [op |-> "clear", idx |-> 0]]
  /\ UNCHANGED <<catalog, carts, nReq, added, total>>

\* a checkout whose Order shares its items array with the cart it clears
PlaceOrderSaveCart_SharedItems(k) ==
  /\ reqs[k].kind = "placeOrder" /\ reqs[k].pc = "saveCart"
  /\ LET r == reqs[k]
         ok == SaveOk(r.cart, r.delta)
     IN /\ carts' = SaveCart(r.userId, r.cart, r.delta)
        /\ orders' = IF ok THEN [orders EXCEPT ![r.orderId].items = <<>>] ELSE orders
        /\ reqs' = [reqs EXCEPT ![k] = Respond(r, IF ok THEN Created ELSE Internal)]
        /\ added' = IF ok THEN [added EXCEPT ![r.userId] = EmptyFn] ELSE added
  /\ UNCHANGED <<catalog, nReq, total>>

\* lines 187-189
PlaceOrderSaveCart(k) ==
  /\ reqs[k].kind = "placeOrder" /\ reqs[k].pc = "saveCart"
  /\ LET r == reqs[k]
         ok == SaveOk(r.cart, r.delta)
     IN /\ carts' = SaveCart(r.userId, r.cart, r.delta)
        /\ reqs' = [reqs EXCEPT ![k] = Respond(r, IF ok THEN Created ELSE Internal)]
        /\ added' = IF ok THEN [added EXCEPT ![r.userId] = EmptyFn] ELSE added
  /\ UNCHANGED <<catalog, orders, nReq, total>>

\* ---- the catch blocks (lines 150-152, 170-172, 190-192) ----
\* the database call a handler is waiting for rejects
PersistenceFailure(k) ==
  /\ Running(k)
  /\ reqs' = [reqs EXCEPT ![k] = Respond(reqs[k], Internal)]
  /\ UNCHANGED <<catalog, carts, orders, nReq, added, total>>

\* ---- specifications ----
\* a request arrives; Q is the set its quantity is drawn from
Arrive(Q) ==
  \/ \E u \in Users, p \in ProductIds, q \in Q : AddItemFindProduct(u, p, q)
  \/ \E u \in Users : GetCartFindCart(u)
  \/ \E u \in Users, a \in Addresses, m \in PaymentMethods : PlaceOrderFindCart(u, a, m)

Step ==
  \E k \in Conns :
    \/ AddItemFindCart(k)
    \/ AddItemSave(k)
    \/ GetCartPopulate(k)
    \/ PlaceOrderPopulate(k)
    \/ PlaceOrderSaveOrder(k)
    \/ PlaceOrderSaveCart(k)
    \/ PersistenceFailure(k)

CatalogChange ==
  \/ \E p \in ProductIds, c \in Prices : CreateProduct(p, c)
  \/ \E p \in ProductIds, c \in Prices : SetPrice(p, c)
  \/ \E p \in ProductIds : RemoveProduct(p)

\* requests of all users handled concurrently
Next ==
  \/ nReq < MaxReq /\ Arrive(Quantities)
  \/ Step
  \/ CatalogChange

Spec == Init /\ [][Next]_vars

\* the same for one request more, every quantity being a positive integer
NextRace ==
  \/ nReq < MaxRaceReq /\ Arrive(Positive)
  \/ Step
  \/ CatalogChange

SpecRace == Init /\ [][NextRace]_vars

\* requests handled one at a time
NextSeq ==
  \/ Idle /\ nReq < MaxSeqReq /\ Arrive(Quantities)
  \/ Step
  \/ Idle /\ CatalogChange

SpecSeq == Init /\ [][NextSeq]_vars

\* ---- what the claims speak of ----

\* the Cart records of user u
CartsOf(u) == {i \in 1..Len(carts) : carts[i].userId = u}

\* the line items of the cart the handlers find for user u
CartItems(u) == IF FindOne(u) = 0 THEN <<>> ELSE carts[FindOne(u)].items

LinesOf(items, p) == {i \in 1..Len(items) : items[i].productId = p}

\* the quantity of product p in the first n lines of items
RECURSIVE QtyIn(_, _, _)
QtyIn(items, n, p) ==
  IF n = 0 THEN 0
  ELSE QtyIn(items, n-1, p) + (IF items[n].productId = p THEN items[n].quantity ELSE 0)

\* the quantity of product p in the first n Orders, those of user u only
RECURSIVE QtyOrdered(_, _, _)
QtyOrdered(n, u, p) ==
  IF n = 0 THEN 0
  ELSE QtyOrdered(n-1, u, p)
         + (IF orders[n].userId = u THEN QtyIn(orders[n].items, Len(orders[n].items), p) ELSE 0)

\* the catalog's price times the quantity, summed over the first n lines
RECURSIVE LineTotal(_, _)
LineTotal(items, n) ==
  IF n = 0 THEN 0
  ELSE LineTotal(items, n-1) + catalog[items[n].productId] * items[n].quantity

\* user u's cart has one line per product added, holding the sum added, and no other line
CartMatchesAdded(u) ==
  \A p \in ProductIds :
    LET items == CartItems(u)
        lines == LinesOf(items, p)
    IN IF p \in DOMAIN added[u]
       THEN Cardinality(lines) = 1 /\ \A i \in lines : items[i].quantity = added[u][p]
       ELSE lines = {}

\* C1: after any sequence of addItem calls executed one after the other, each
\* user's cart holds exactly one line item per distinct product added, whose
\* quantity is the sum of the quantities added for that product since the
\* cart was last emptied by a checkout.
C1_OneLinePerProduct == \A u \in Users : CartMatchesAdded(u)

\* two addItem calls for the same product (1, then 3) have left one line of quantity 4
C1_Witness ==
  /\ Idle
  /\ \E u \in Users, p \in ProductIds :
       /\ p \in DOMAIN added[u] /\ added[u][p] = 4
       /\ Cardinality(LinesOf(CartItems(u), p)) = 1
       /\ \E i \in LinesOf(CartItems(u), p) : CartItems(u)[i].quantity = 4

\* C2: a successful placeOrder on a non-empty cart creates exactly one Order
\* of that user, with the cart's lines, the total of current price times
\* quantity and the status "Pending"; when it returns the user's cart has no
\* line items, and a getCart that follows returns an empty collection.
C2_Checkout ==
  [][\A k \in Conns :
       LET r == reqs[k]
           u == r.userId
           items == CartItems(u)
       IN /\ (r.kind = "placeOrder" /\ r.pc = "saveOrder" /\ reqs'[k].pc = "saveCart") =>
               /\ Len(orders') = Len(orders) + 1
               /\ SubSeq(orders', 1, Len(orders)) = orders
               /\ items # <<>>
               /\ \A i \in 1..Len(items) : items[i].productId \in DOMAIN catalog
               /\ LET o == orders'[Len(orders')] IN
                    /\ o.userId = u
                    /\ o.items = items
                    /\ o.totalPrice = LineTotal(items, Len(items))
                    /\ o.status = "Pending"
          /\ (r.kind = "placeOrder" /\ r.pc # "done" /\ reqs'[k].status = Created) =>
               /\ orders' = orders
               /\ reqs'[k].orderId = Len(orders)
               /\ orders[Len(orders)].userId = u
               /\ CartItems(u)' = <<>>
          /\ ( /\ reqs'[k].kind = "getCart" /\ reqs'[k].pc = "done" /\ reqs'[k] # r
               /\ reqs'[k].status = OK
               /\ \E i \in 1..Len(orders) : orders[i].userId = reqs'[k].userId
               /\ added[reqs'[k].userId] = EmptyFn ) =>
               reqs'[k].body = <<>>
    ]_vars

\* the checkout of a cart of 3 at price 2 and 1 at price 5 has returned: an Order of 11
C2_Witness ==
  \E k \in Conns :
    /\ reqs[k].kind = "placeOrder" /\ reqs[k].status = Created
    /\ LET o == orders[reqs[k].orderId] IN
         /\ o.userId = reqs[k].userId
         /\ Len(o.items) = 2 /\ o.items[1].quantity = 3 /\ o.items[2].quantity = 1
         /\ o.totalPrice = 11
    /\ CartItems(reqs[k].userId) = <<>>

C4_OrderBeforeClear ==
  [][/\ \A i \in 1..Len(carts) :
          (carts[i].items # <<>> /\ carts'[i].items = <<>>) =>
            \E k \in Conns :
              /\ reqs[k].kind = "placeOrder" /\ reqs[k].userId = carts[i].userId
              /\ reqs'[k] # reqs[k]
              /\ reqs[k].orderId \in 1..Len(orders)
              /\ orders[reqs[k].orderId].userId = carts[i].userId
              /\ orders' = orders
     /\ \A k \in Conns :
          (reqs'[k].kind = "placeOrder" /\ reqs'[k].status = Created) =>
            /\ reqs'[k].orderId \in 1..Len(orders')
            /\ orders'[reqs'[k].orderId].userId = reqs'[k].userId
    ]_vars

\* a placeOrder failed between its two writes: its Order exists, the cart is not cleared
C4_Witness ==
  \E k \in Conns :
    /\ reqs[k].kind = "placeOrder" /\ reqs[k].status = Internal
    /\ reqs[k].orderId \in 1..Len(orders)
    /\ CartItems(reqs[k].userId) = orders[reqs[k].orderId].items

\* C5 (as claimed): once all concurrent addItem calls of a user have
\* completed, the cart has one line per product added, holding the sum of the
\* quantities added (no update lost, no line duplicated).
C5_Orig ==
  Idle =>
    \A u \in Users :
      (Cardinality(CartsOf(u)) <= 1 /\ \A i \in 1..Len(orders) : orders[i].userId # u)
        => CartMatchesAdded(u)

\* C6 (as claimed): however a successful addItem and a successful placeOrder
\* of one user interleave, the quantity added is in an Order or in the cart
\* once both have completed.
C6_Orig ==
  Idle =>
    \A u \in Users, p \in ProductIds :
      ( /\ Cardinality(CartsOf(u)) <= 1
        /\ QtyOrdered(Len(orders), u, p) > 0 )
        => QtyIn(CartItems(u), Len(CartItems(u)), p) + QtyOrdered(Len(orders), u, p)
             >= total[u][p]

\* C7 (as claimed): a checkout that finds a cart line whose product is not
\* in the catalog fails with NotFound and creates no Order.
C7_Orig ==
  [][\A k \in Conns :
       ( /\ reqs[k].kind = "placeOrder" /\ reqs[k].pc = "populate"
         /\ reqs'[k] # reqs[k]
         /\ AnyMissing(Populate(reqs[k].cart.items)) ) =>
         /\ reqs'[k].status = NotFound
         /\ orders' = orders
    ]_vars

C9_Orig == \A u \in Users : Cardinality(CartsOf(u)) <= 1

\* C10 (as claimed): addItem with a quantity of zero or less fails with
\* InvalidState, and every cart line item has a quantity of at least 1.
C10_Orig ==
  /\ \A k \in Conns :
       (reqs[k].kind = "addItem" /\ reqs[k].pc = "done" /\ reqs[k].quantity <= 0
          /\ reqs[k].status # NotFound /\ reqs[k].status # Internal)
         => reqs[k].status = InvalidState
  /\ \A i \in 1..Len(carts) : \A j \in 1..Len(carts[i].items) :
       carts[i].items[j].quantity >= 1
====
